---- MODULE Spec2Model ----
(***************************************************************************)
(* Model of src/main.py: the batch CEP lookup.  One run of the script      *)
(* reads the column CEP of the sheet CEP of CEP.xlsx, calls                *)
(* obter_endereco_por_cep once per non-null cell, accumulates the rows in  *)
(* the DataFrame resultados and writes it to the sheet Dados of the same   *)
(* workbook.  The lookup service and the transport are the environment:    *)
(* every status, body and transport failure is a nondeterministic choice.  *)
(***************************************************************************)
EXTENDS Integers, Sequences, FiniteSets, TLC

\* ---------------------------------------------------------------- bounds
MaxRows == 2      \* cells in the column CEP of the input sheet
MaxRuns == 2      \* executions of the script against the same workbook
MaxCalls == 2     \* direct calls of obter_endereco_por_cep (SpecClient)

\* ------------------------------------------------------- spreadsheet cells
\* A cell of the column CEP: text, a whole number, or empty (NaN).
NaN == [t |-> "nan", n |-> 0, s |-> <<>>]
CellStr(s) == [t |-> "str", n |-> 0, s |-> s]
CellInt(n) == [t |-> "int", n |-> n, s |-> <<>>]

\* An empty cell, the text "1-0-0" and the number 100 (the same code typed
\* into a numeric cell).
Cells == {NaN, CellStr(<<"1", "-", "0", "-", "0">>), CellInt(100)}

Digits == <<"0", "1", "2", "3", "4", "5", "6", "7", "8", "9">>

RECURSIVE Dec(_)
\* decimal text of a natural number
Dec(n) == IF n < 10 THEN <<Digits[n + 1]>> ELSE Dec(n \div 10) \o <<Digits[(n % 10) + 1]>>

\* str(cep) of line 126
Str(c) == IF c.t = "str" THEN c.s ELSE Dec(c.n)

IsHyphen(ch) == ch = "-"

RECURSIVE Replace(_)
\* .replace('-', '') of line 126: every hyphen removed
Replace(s) ==
    IF s = <<>> THEN <<>>
    ELSE IF IsHyphen(Head(s)) THEN Replace(Tail(s))
    ELSE <<Head(s)>> \o Replace(Tail(s))

NormalizaVerbatim(c) == Str(c)

\* the argument the loop passes to the lookup, line 126
Normaliza(c) == Replace(Str(c))

\* f"/ws/{cep}/json/" of line 35
Caminho(cep) == <<"/", "w", "s", "/">> \o cep \o <<"/", "j", "s", "o", "n", "/">>

\* ------------------------------------------------------- lookup responses
\* Names of the body texts the service may send with a status 200:
\*   full       {"cep":"X","logradouro":"L","bairro":"B","localidade":"C","uf":"U"}
\*   noaddr     {"cep":"X"}
\*   empty      {}
\*   erro       {"erro":"true"}
\*   erro_full  {"erro":"false","logradouro":"L","bairro":"B","localidade":"C","uf":"U"}
\*   num        0
\*   invalid    <html>            (not JSON)
Corpos == {"full", "noaddr", "empty", "erro", "erro_full", "num", "invalid"}

Statuses == {200, 404}

EmptyObj == [k \in {} |-> ""]

ObjFull ==
    ("cep" :> "X") @@ ("logradouro" :> "L") @@ ("bairro" :> "B") @@
    ("localidade" :> "C") @@ ("uf" :> "U")

ObjErroFull ==
    ("erro" :> "false") @@ ("logradouro" :> "L") @@ ("bairro" :> "B") @@
    ("localidade" :> "C") @@ ("uf" :> "U")

\* A parsed JSON value: an object (dict) or a number; None is the Python None.
JObj(o) == [t |-> "obj", o |-> o]
JNum == [t |-> "num", o |-> EmptyObj]
None == [t |-> "None", o |-> EmptyObj]

\* json.loads raises on a text that is not JSON (line 69)
JsonValido(d) == d # "invalid"

\* json.loads(dados.decode("utf-8")) of line 69, on a valid text
JsonLoads(d) ==
    CASE d = "full" -> JObj(ObjFull)
      [] d = "noaddr" -> JObj("cep" :> "X")
      [] d = "empty" -> JObj(EmptyObj)
      [] d = "erro" -> JObj("erro" :> "true")
      [] d = "erro_full" -> JObj(ObjErroFull)
      [] OTHER -> JNum

StatusOkAny(s) == TRUE

\* the test of line 49, negated: the status is 200
StatusOk(s) == s = 200

\* "erro" in endereco, line 77 (defined for a dict)
TemErro(v) == "erro" \in DOMAIN v.o

\* endereco if "erro" not in endereco else None, line 77
Retorno(v) == IF TemErro(v) THEN None ELSE v

\* truth value of the returned object, line 131: None and {} are false
Truthy(e) == e.t = "obj" /\ DOMAIN e.o # {}

\* dict.get(key, default)
Get(e, key, default) == IF key \in DOMAIN e.o THEN e.o[key] ELSE default

\* the one-row DataFrame of lines 140-146
NovaLinha(cep, e) ==
    [CEP |-> cep,
     Logradouro |-> Get(e, "logradouro", ""),
     Bairro |-> Get(e, "bairro", ""),
     Localidade |-> Get(e, "localidade", ""),
     UF |-> Get(e, "uf", "")]

ConcatFrente(res, linha) == <<linha>> \o res

\* pd.concat([resultados, nova_linha], ignore_index=True), line 155
Concat(res, linha) == Append(res, linha)

\* ------------------------------------------------------------ the workbook
\* A workbook is the ordered list of its sheets.
Sheet(name, header, rows) == [name |-> name, header |-> header, rows |-> rows]

ColunasDados == <<"CEP", "Logradouro", "Bairro", "Localidade", "UF">>

LinhaVelha ==
    [CEP |-> CellInt(100), Logradouro |-> "V", Bairro |-> "V",
     Localidade |-> "V", UF |-> "V"]

SheetOutra == Sheet("Outra", <<"A">>, <<CellInt(100)>>)

SheetDadosVelha == Sheet("Dados", ColunasDados, <<LinhaVelha, LinhaVelha>>)

\* all sequences over S of length at most n
SeqUpTo(S, n) == UNION {[1..k -> S] : k \in 0..n}

\* the workbooks a run may find: the input sheet, with or without a sheet
\* Dados left by an earlier run, and one unrelated sheet
InitialFiles ==
    {<<Sheet("CEP", <<"CEP">>, col), SheetOutra>> : col \in SeqUpTo(Cells, MaxRows)}
    \cup
    {<<Sheet("CEP", <<"CEP">>, col), SheetDadosVelha, SheetOutra>> :
        col \in SeqUpTo(Cells, MaxRows)}

HasSheet(book, name) == \E i \in 1..Len(book) : book[i].name = name

SheetIndex(book, name) == CHOOSE i \in 1..Len(book) : book[i].name = name

NotNull(c) == c.t # "nan"

\* pd.read_excel(caminho_planilha, sheet_name='CEP')['CEP'], lines 90 and 98
ColunaCep(book) == book[SheetIndex(book, "CEP")].rows

LerCepsSemDropna(book) == ColunaCep(book)

\* planilha_ceps['CEP'].dropna(), line 98: the column without its empty cells
LerCeps(book) == SelectSeq(ColunaCep(book), NotNull)

ToExcelTruncate(book, name, rows) == <<Sheet(name, ColunasDados, rows)>>

ToExcelNew(book, name, rows) ==
    IF HasSheet(book, name)
    THEN Append(book, Sheet("Dados1", ColunasDados, rows))
    ELSE Append(book, Sheet(name, ColunasDados, rows))

\* ExcelWriter(mode='a', if_sheet_exists='replace') + to_excel(sheet_name=name,
\* index=False) + save, lines 176-185: the sheet is replaced in place when it
\* exists and added at the end when it does not
ToExcel(book, name, rows) ==
    IF HasSheet(book, name)
    THEN [book EXCEPT ![SheetIndex(book, name)] = Sheet(name, ColunasDados, rows)]
    ELSE Append(book, Sheet(name, ColunasDados, rows))

\* ------------------------------------------------------------------- state
VARIABLES
    arquivo,     \* CEP.xlsx: the workbook on disk
    arquivo0,    \* the workbook as the current run found it
    runs,        \* runs of the script started so far
    pc,          \* position of the script
    ret,         \* where the running invocation of the lookup returns to
    motivo,      \* the uncaught exception that ended the run, "" if none
    ceps,        \* the Series ceps, line 98
    idx,         \* how many elements of ceps the for loop has taken
    resultados,  \* the DataFrame resultados, as its sequence of rows
    endereco,    \* the variable endereco of the loop, line 126
    arg,         \* parameter cep of the running invocation
    conexao,     \* connection of the latest invocation: nova, aberta, fechada
    status,      \* resposta.status of the running invocation, 0 before it
    dados,       \* body read by the running invocation, "" before it
    valor,       \* the parsed body inside the invocation (endereco, line 69)
    pedidos,     \* the calls conexao.request has received, in order
    respostas,   \* what each finished invocation received, in order
    emitidas,    \* for each row of resultados, the index in ceps it came from
    escritor     \* times the ExcelWriter was opened in this run

vars == <<arquivo, arquivo0, runs, pc, ret, motivo, ceps, idx, resultados, endereco,
          arg, conexao, status, dados, valor, pedidos, respostas, emitidas, escritor>>

ClientPcs == {"request", "getresponse", "status", "read", "parse", "return"}

Init ==
    /\ arquivo \in InitialFiles
    /\ arquivo0 = arquivo
    /\ runs = 0
    /\ pc = "start"
    /\ ret = "start"
    /\ motivo = ""
    /\ ceps = <<>>
    /\ idx = 0
    /\ resultados = <<>>
    /\ endereco = None
    /\ arg = <<>>
    /\ conexao = "fechada"
    /\ status = 0
    /\ dados = ""
    /\ valor = None
    /\ pedidos = <<>>
    /\ respostas = <<>>
    /\ emitidas = <<>>
    /\ escritor = 0

\* ------------------------------------------------------------ the pipeline
\* Lines 84-111: a new process starts, reads the column and creates the
\* empty result table.  Nothing but the workbook survives from a former run.
Carregar ==
    /\ pc \in {"start", "done", "aborted"}
    /\ runs < MaxRuns
    /\ runs' = runs + 1
    /\ arquivo0' = arquivo
    /\ ceps' = LerCeps(arquivo)
    /\ resultados' = <<>>
    /\ idx' = 0
    /\ pc' = "loop"
    /\ ret' = "test"
    /\ motivo' = ""
    /\ endereco' = None
    /\ arg' = <<>>
    /\ conexao' = "fechada"
    /\ status' = 0
    /\ dados' = ""
    /\ valor' = None
    /\ pedidos' = <<>>
    /\ respostas' = <<>>
    /\ emitidas' = <<>>
    /\ escritor' = 0
    /\ UNCHANGED arquivo

\* Lines 117 and 126: the loop takes the next element and calls the lookup
\* with its normalised text; line 27 creates the connection object.
LoopNext ==
    /\ pc = "loop"
    /\ idx < Len(ceps)
    /\ idx' = idx + 1
    /\ arg' = Normaliza(ceps[idx + 1])
    /\ conexao' = "nova"
    /\ ret' = "test"
    /\ pc' = "request"
    /\ UNCHANGED <<arquivo, arquivo0, runs, motivo, ceps, resultados, endereco,
                   status, dados, valor, pedidos, respostas, emitidas, escritor>>

\* Line 117: the series is exhausted, the script goes on to the writer.
LoopEnd ==
    /\ pc = "loop"
    /\ idx = Len(ceps)
    /\ pc' = "write"
    /\ UNCHANGED <<arquivo, arquivo0, runs, ret, motivo, ceps, idx, resultados, endereco,
                   arg, conexao, status, dados, valor, pedidos, respostas, emitidas,
                   escritor>>

\* What one invocation got from the service: the status (0 when no response
\* arrived) and the body (the empty text when none was read).
Resposta(s, d) == [status |-> s, corpo |-> d]

\* An exception nobody catches ends the process; the locals of the
\* invocation are gone, its connection is left as it was.
Raise(m, con) ==
    /\ pc' = "aborted"
    /\ motivo' = m
    /\ conexao' = con
    /\ respostas' = Append(respostas, Resposta(status, dados))
    /\ status' = 0
    /\ dados' = ""
    /\ valor' = None

Pedido(via) == [via |-> via, arg |-> arg, path |-> Caminho(arg)]

\* Line 35, conexao.request("GET", f"/ws/{cep}/json/") succeeds.
RequestOk ==
    /\ pc = "request"
    /\ pedidos' = Append(pedidos, Pedido(IF ret = "test" THEN "loop" ELSE "direct"))
    /\ conexao' = "aberta"
    /\ pc' = "getresponse"
    /\ UNCHANGED <<arquivo, arquivo0, runs, ret, motivo, ceps, idx, resultados, endereco,
                   arg, status, dados, valor, respostas, emitidas, escritor>>

\* Line 35 raises (no route, refused, TLS failure, broken pipe): the socket
\* may or may not have been opened.
RequestFalha ==
    /\ pc = "request"
    /\ pedidos' = Append(pedidos, Pedido(IF ret = "test" THEN "loop" ELSE "direct"))
    /\ \E con \in {"nova", "aberta"} : Raise("transport", con)
    /\ UNCHANGED <<arquivo, arquivo0, runs, ret, ceps, idx, resultados, endereco,
                   arg, emitidas, escritor>>

\* Line 41, conexao.getresponse() returns a response with some status.
GetResponseOk ==
    /\ pc = "getresponse"
    /\ \E s \in Statuses : status' = s
    /\ pc' = "status"
    /\ UNCHANGED <<arquivo, arquivo0, runs, ret, motivo, ceps, idx, resultados, endereco,
                   arg, conexao, dados, valor, pedidos, respostas, emitidas, escritor>>

\* Line 41 raises; http.client closes the socket on some of these errors.
GetResponseFalha ==
    /\ pc = "getresponse"
    /\ \E con \in {"aberta", "fechada"} : Raise("transport", con)
    /\ UNCHANGED <<arquivo, arquivo0, runs, ret, ceps, idx, resultados, endereco,
                   arg, pedidos, emitidas, escritor>>

\* Lines 49-57: a status other than 200 closes the connection and returns None.
StatusNaoOk ==
    /\ pc = "status"
    /\ ~StatusOk(status)
    /\ conexao' = "fechada"
    /\ endereco' = None
    /\ respostas' = Append(respostas, Resposta(status, dados))
    /\ status' = 0
    /\ pc' = ret
    /\ UNCHANGED <<arquivo, arquivo0, runs, ret, motivo, ceps, idx, resultados,
                   arg, dados, valor, pedidos, emitidas, escritor>>

\* Line 49, the status is 200: execution falls through to the read.
StatusOkPasso ==
    /\ pc = "status"
    /\ StatusOk(status)
    /\ pc' = "read"
    /\ UNCHANGED <<arquivo, arquivo0, runs, ret, motivo, ceps, idx, resultados, endereco,
                   arg, conexao, status, dados, valor, pedidos, respostas, emitidas,
                   escritor>>

\* Line 63, resposta.read() returns the body.
ReadOk ==
    /\ pc = "read"
    /\ \E d \in Corpos : dados' = d
    /\ pc' = "parse"
    /\ UNCHANGED <<arquivo, arquivo0, runs, ret, motivo, ceps, idx, resultados, endereco,
                   arg, conexao, status, valor, pedidos, respostas, emitidas, escritor>>

\* Line 63 raises (connection reset, incomplete read).
ReadFalha ==
    /\ pc = "read"
    /\ \E con \in {"aberta", "fechada"} : Raise("transport", con)
    /\ UNCHANGED <<arquivo, arquivo0, runs, ret, ceps, idx, resultados, endereco,
                   arg, pedidos, emitidas, escritor>>

ParseAbsorve ==
    /\ pc = "parse"
    /\ valor' = IF JsonValido(dados) THEN JsonLoads(dados) ELSE JObj("erro" :> "true")
    /\ conexao' = "fechada"
    /\ pc' = "return"
    /\ UNCHANGED <<arquivo, arquivo0, runs, ret, motivo, ceps, idx, resultados, endereco,
                   arg, status, dados, pedidos, respostas, emitidas, escritor>>

\* Lines 69-72: json.loads parses the body and the connection is closed; on
\* a body that is not JSON json.loads raises and line 72 is never reached.
Parse ==
    /\ pc = "parse"
    /\ IF JsonValido(dados)
       THEN /\ valor' = JsonLoads(dados)
            /\ conexao' = "fechada"
            /\ pc' = "return"
            /\ UNCHANGED <<motivo, status, dados, respostas>>
       ELSE Raise("json", conexao)
    /\ UNCHANGED <<arquivo, arquivo0, runs, ret, ceps, idx, resultados, endereco,
                   arg, pedidos, emitidas, escritor>>

\* Line 77: the membership test and the return; on a JSON number the test
\* "erro" in endereco raises TypeError.
Return ==
    /\ pc = "return"
    /\ IF valor.t = "obj"
       THEN /\ endereco' = Retorno(valor)
            /\ respostas' = Append(respostas, Resposta(status, dados))
            /\ pc' = ret
            /\ status' = 0
            /\ dados' = ""
            /\ valor' = None
            /\ UNCHANGED <<motivo, conexao>>
       ELSE /\ Raise("type", conexao)
            /\ UNCHANGED endereco
    /\ UNCHANGED <<arquivo, arquivo0, runs, ret, ceps, idx, resultados,
                   arg, pedidos, emitidas, escritor>>

\* Lines 131-155: a true endereco adds one row built from the loop's cep.
Test ==
    /\ pc = "test"
    /\ IF Truthy(endereco)
       THEN /\ resultados' = Concat(resultados, NovaLinha(ceps[idx], endereco))
            /\ emitidas' = Append(emitidas, idx)
       ELSE UNCHANGED <<resultados, emitidas>>
    /\ pc' = "loop"
    /\ UNCHANGED <<arquivo, arquivo0, runs, ret, motivo, ceps, idx, endereco,
                   arg, conexao, status, dados, valor, pedidos, respostas, escritor>>

\* Line 176: the ExcelWriter opens the workbook in append mode.
AbrirWriter ==
    /\ pc = "write"
    /\ escritor' = escritor + 1
    /\ pc' = "writing"
    /\ UNCHANGED <<arquivo, arquivo0, runs, ret, motivo, ceps, idx, resultados, endereco,
                   arg, conexao, status, dados, valor, pedidos, respostas, emitidas>>

\* Line 176 raises (the file is locked or gone, openpyxl is missing).
AbrirWriterFalha ==
    /\ pc = "write"
    /\ pc' = "aborted"
    /\ motivo' = "write"
    /\ UNCHANGED <<arquivo, arquivo0, runs, ret, ceps, idx, resultados, endereco,
                   arg, conexao, status, dados, valor, pedidos, respostas, emitidas,
                   escritor>>

\* Lines 185-190: to_excel stages the sheet, leaving the with block saves
\* the workbook, the completion message is printed.
Gravar ==
    /\ pc = "writing"
    /\ arquivo' = ToExcel(arquivo, "Dados", resultados)
    /\ pc' = "done"
    /\ UNCHANGED <<arquivo0, runs, ret, motivo, ceps, idx, resultados, endereco,
                   arg, conexao, status, dados, valor, pedidos, respostas, emitidas,
                   escritor>>

Next ==
    \/ Carregar
    \/ LoopNext
    \/ LoopEnd
    \/ RequestOk
    \/ RequestFalha
    \/ GetResponseOk
    \/ GetResponseFalha
    \/ StatusNaoOk
    \/ StatusOkPasso
    \/ ReadOk
    \/ ReadFalha
    \/ Parse
    \/ Return
    \/ Test
    \/ AbrirWriter
    \/ AbrirWriterFalha
    \/ Gravar

Spec == Init /\ [][Next]_vars

\* ------------------------------------------- the lookup called on its own
\* obter_endereco_por_cep called directly with a text, as a caller other
\* than the loop (a test, an interactive session) would, before any run.
ChamadaDireta ==
    /\ pc = "start"
    /\ runs = 0
    /\ Len(pedidos) < MaxCalls
    /\ \E c \in Cells : NotNull(c) /\ arg' = Str(c)
    /\ conexao' = "nova"
    /\ ret' = "start"
    /\ pc' = "request"
    /\ UNCHANGED <<arquivo, arquivo0, runs, motivo, ceps, idx, resultados, endereco,
                   status, dados, valor, pedidos, respostas, emitidas, escritor>>

NextClient == Next \/ ChamadaDireta

SpecClient == Init /\ [][NextClient]_vars

\* ------------------------------------------------------------- properties
\* the rows of the sheet Dados of a workbook
LinhasDados(book) == book[SheetIndex(book, "Dados")].rows

\* the response is a status 200 whose body is a JSON document without a
\* field erro
SemErro(r) ==
    /\ r.status = 200
    /\ r.corpo \in {"full", "noaddr", "empty"}

\* the response is a status other than 200, or a JSON body with a field erro
NaoEncontrado(r) ==
    \/ r.status \notin {0, 200}
    \/ r.status = 200 /\ r.corpo \in {"erro", "erro_full"}

\* the field of the response's document, or the empty text when absent
Campo(r, key) ==
    CASE r.corpo = "full" /\ key = "logradouro" -> "L"
      [] r.corpo = "full" /\ key = "bairro" -> "B"
      [] r.corpo = "full" /\ key = "localidade" -> "C"
      [] r.corpo = "full" /\ key = "uf" -> "U"
      [] OTHER -> ""

LinhaEsperada(c, r) ==
    [CEP |-> c, Logradouro |-> Campo(r, "logradouro"), Bairro |-> Campo(r, "bairro"),
     Localidade |-> Campo(r, "localidade"), UF |-> Campo(r, "uf")]

\* the positions of the output table that hold the row of input entry i
LinhasDe(i) == {k \in 1..Len(emitidas) : emitidas[k] = i}

\* C1: after a completed run, every entry whose lookup returned 200 with a
\* JSON document without erro has exactly one row in the sheet Dados, with
\* the original cell as CEP and the document's fields, "" for absent ones.
C1_UmaLinhaPorResolvido ==
    pc = "done" =>
        \A i \in 1..Len(ceps) :
            SemErro(respostas[i]) =>
                /\ Cardinality(LinhasDe(i)) = 1
                /\ \A k \in LinhasDe(i) :
                       /\ k <= Len(LinhasDados(arquivo))
                       /\ LinhasDados(arquivo)[k] = LinhaEsperada(ceps[i], respostas[i])

\* C2: every row of resultados comes from a non-null cell of the input
\* column whose lookup returned 200 without erro; a non-200 status or a body
\* with erro gives no row and does not end the run.
C2_LinhasSoDeResolvidos ==
    /\ Len(emitidas) = Len(resultados)
    /\ \A k \in 1..Len(resultados) :
           /\ emitidas[k] \in 1..Len(respostas)
           /\ emitidas[k] \in 1..Len(ceps)
           /\ resultados[k].CEP = ceps[emitidas[k]]
           /\ NotNull(resultados[k].CEP)
           /\ \E j \in 1..Len(ColunaCep(arquivo0)) : ColunaCep(arquivo0)[j] = resultados[k].CEP
           /\ SemErro(respostas[emitidas[k]])
    /\ \A i \in 1..Len(respostas) :
           NaoEncontrado(respostas[i]) =>
               /\ LinhasDe(i) = {}
               /\ (i = Len(respostas) /\ pc = "aborted") => motivo = "write"

C2_Witness ==
    /\ pc = "done"
    /\ Len(resultados) = 1
    /\ Len(respostas) = 2
    /\ NaoEncontrado(respostas[1])
    /\ SemErro(respostas[2])

\* C3: a transport failure of one lookup never ends the run.
C3_TransporteAbsorvido == ~(pc = "aborted" /\ motivo = "transport")

C5_ConexaoFechada == pc \notin ClientPcs => conexao # "aberta"

\* C6 as stated: obter_endereco_por_cep called with a text and called with
\* that text without hyphens sends the same request path.
C6_ClienteNormaliza ==
    \A i, j \in 1..Len(pedidos) :
        (/\ pedidos[i].via = "direct"
         /\ pedidos[j].via = "direct"
         /\ pedidos[j].arg = Replace(pedidos[i].arg))
            => pedidos[i].path = pedidos[j].path

\* C6 amended: the loop normalises, the lookup does not.  The loop's lookups
\* of an entry and of that entry without hyphens send the same request path,
\* and every invocation sends /ws/<its argument>/json/ unchanged.
C6_LoopNormaliza ==
    /\ \A i, j \in 1..Len(pedidos) :
           (/\ pedidos[i].via = "loop"
            /\ pedidos[j].via = "loop"
            /\ Str(ceps[j]) = Replace(Str(ceps[i])))
               => pedidos[i].path = pedidos[j].path
    /\ \A i \in 1..Len(pedidos) : pedidos[i].path = Caminho(pedidos[i].arg)

C6_Witness ==
    \E i, j \in 1..Len(pedidos) :
        /\ pedidos[i].via = "loop"
        /\ pedidos[j].via = "loop"
        /\ Str(ceps[i]) # Str(ceps[j])
        /\ Str(ceps[j]) = Replace(Str(ceps[i]))

StrictlyIncreasing(s) == \A a, b \in 1..Len(s) : a < b => s[a] < s[b]

\* C7: at every moment the CEPs of resultados are, in order and with
\* duplicates, the entries of the null-filtered input column that produced a
\* row, among the entries the loop has taken.
C7_OrdemPreservada ==
    pc # "start" =>
        /\ ceps = SelectSeq(ColunaCep(arquivo0), NotNull)
        /\ Len(emitidas) = Len(resultados)
        /\ StrictlyIncreasing(emitidas)
        /\ \A k \in 1..Len(resultados) :
               /\ emitidas[k] \in 1..idx
               /\ resultados[k].CEP = ceps[emitidas[k]]

C7_Witness ==
    /\ Len(resultados) = 2
    /\ resultados[1].CEP # resultados[2].CEP
    /\ pc = "done"

DadosLike == {"Dados", "Dados1"}

\* C8: a second (or later) completed run leaves exactly one sheet Dados,
\* holding exactly the rows of that run.
C8_SoUltimaExecucao ==
    (pc = "done" /\ runs >= 2) =>
        /\ Cardinality({i \in 1..Len(arquivo) : arquivo[i].name \in DadosLike}) = 1
        /\ HasSheet(arquivo, "Dados")
        /\ LinhasDados(arquivo) = resultados
        /\ arquivo[SheetIndex(arquivo, "Dados")].header = ColunasDados

C8_Witness ==
    /\ pc = "done"
    /\ runs = 2
    /\ HasSheet(arquivo0, "Dados")
    /\ LinhasDados(arquivo0) # <<LinhaVelha, LinhaVelha>>
    /\ Len(LinhasDados(arquivo0)) = 2
    /\ Len(resultados) < 2

NaoDados(sh) == sh.name # "Dados"

\* C9: the sheets other than Dados are, at every moment of a run, the ones
\* the run found, with the same content and in the same order.
C9_OutrasFolhasIntactas ==
    /\ SelectSeq(arquivo, NaoDados) = SelectSeq(arquivo0, NaoDados)
    /\ HasSheet(arquivo, "CEP")

C9_Witness ==
    /\ pc = "done"
    /\ arquivo # arquivo0
    /\ HasSheet(arquivo0, "Dados")
    /\ Len(arquivo) = 3

\* C10: the requests of a run are, in order, one per entry of the
\* null-filtered input column, each for the entry's text without hyphens; at
\* most one is in flight, none is repeated, and the writer is opened once,
\* after the last one has finished.
C10_UmPedidoPorEntrada ==
    pc # "start" =>
        /\ ceps = SelectSeq(ColunaCep(arquivo0), NotNull)
        /\ Len(pedidos) = idx - (IF pc = "request" THEN 1 ELSE 0)
        /\ \A i \in 1..Len(pedidos) : pedidos[i].path = Caminho(Replace(Str(ceps[i])))
        /\ Len(pedidos) - Len(respostas) = (IF pc \in ClientPcs \ {"request"} THEN 1 ELSE 0)
        /\ escritor <= 1
        /\ escritor = 1 =>
               /\ Len(pedidos) = Len(ceps)
               /\ Len(respostas) = Len(ceps)
               /\ conexao # "aberta"
        /\ arquivo # arquivo0 => escritor = 1
        /\ pc = "done" => (escritor = 1 /\ Len(pedidos) = Len(ceps))

C10_Witness ==
    /\ pc = "done"
    /\ Len(pedidos) = 2
    /\ pedidos[1].path = pedidos[2].path
    /\ Len(resultados) = 0
    /\ Len(ColunaCep(arquivo0)) = 2

====
